---- MODULE Spec2Model ----
(***************************************************************************)
(* Sentiment Analysis Studio (src/app.py): the sentiment helper            *)
(* predict_sentiment, the aspect tagger, the value_counts/reindex          *)
(* aggregators, and the three Streamlit modes (topic, channel, CSV).       *)
(*                                                                         *)
(* A Python str is a sequence of one-character strings, so that slicing,   *)
(* lower() and the substring test `k in tl` are computed, not assumed.     *)
(* The language detector, the two classifiers and the YouTube API are the  *)
(* environment: their answers (a value, or an exception) are variables     *)
(* fixed by Init.  A Streamlit script run is one action.                   *)
(***************************************************************************)
EXTENDS Integers, Sequences, FiniteSets, TLC

VARIABLES
    detect_result,  \* langdetect.detect: text -> a language code, or RAISE
    model_result,   \* the classifier pipelines: text passed -> a label, or RAISE
    api,            \* the YouTube API's answers: search, commentThreads, channel search
    mode,           \* the selectbox "Choose Analysis Type"
    input,          \* the argument of the last operation (uploaded file, texts, ...)
    output,         \* the value the last pure helper returned
    ui,             \* the elements the last script run rendered, in order
    crashed,        \* the last script run ended in an uncaught exception
    calls,          \* the classifier invocations of the last run: <<model, text passed>>
    comments,       \* the comments the last run collected
    sentiments,     \* the list of sentiments the last run handed to the aggregator
    counts,         \* the aggregated Series s of show_sentiment_pie(_and_bar)
    aspect_df       \* the per-aspect table handed to st.bar_chart

vars == <<detect_result, model_result, api, mode, input, output, ui, crashed,
          calls, comments, sentiments, counts, aspect_df>>

-----------------------------------------------------------------------------
(* Bounds of the model *)

MaxComments == 2    \* comments one video returns
MaxVideos == 2      \* videos one search returns
MaxRows == 2        \* rows of an uploaded CSV
MaxTexts == 2       \* texts given to aspect_based_sentiment
MaxItems == 4       \* sentiments given to the aggregator

-----------------------------------------------------------------------------
(* Python strings *)

Min(a, b) == IF a < b THEN a ELSE b

UPPER == <<"A","B","C","D","E","F","G","H","I","J","K","L","M",
           "N","O","P","Q","R","S","T","U","V","W","X","Y","Z">>
LOWER == <<"a","b","c","d","e","f","g","h","i","j","k","l","m",
           "n","o","p","q","r","s","t","u","v","w","x","y","z">>

\* str.lower() on one character
LowerChar(c) ==
    IF \E i \in 1..Len(UPPER) : UPPER[i] = c
    THEN LOWER[CHOOSE i \in 1..Len(UPPER) : UPPER[i] = c]
    ELSE c

\* str.lower()
StrLower(t) == [i \in 1..Len(t) |-> LowerChar(t[i])]

\* the Python test `k in tl` on strings
Contains(k, tl) ==
    \E i \in 0..(Len(tl) - Len(k)) : SubSeq(tl, i + 1, i + Len(k)) = k

\* the Python slice s[:n]
Take(s, n) == SubSeq(s, 1, Min(n, Len(s)))

Range(s) == {s[i] : i \in 1..Len(s)}

\* the sequences over S of length at most n
SeqUpTo(S, n) == UNION {[1..k -> S] : k \in 0..n}

\* t followed by filler characters up to length n
Pad(t, n) == t \o [i \in 1..(n - Len(t)) |-> "x"]

-----------------------------------------------------------------------------
(* Texts *)

T_empty == << >>
T_nice == <<"n","i","c","e">>
T_good == <<"g","o","o","d">>
T_expensive == <<"T","o","o"," ","E","X","P","E","N","S","I","V","E">>
T_cheapbox == <<"c","h","e","a","p"," ","b","o","x">>
T_purebox == <<"P","u","r","e"," ","b","o","x">>

\* text[:512] keeps at most this many characters (line 114)
MAX_CHARS == 512

T_511 == Pad(T_nice, 511)
T_512 == Pad(T_nice, 512)
T_513 == Pad(T_nice, 513)
T_600 == Pad(T_good, 600)

-----------------------------------------------------------------------------
(* The environment: detector, classifiers *)

RAISE == "raise"

Languages == {"en", "fr"}
DetectOutcomes == Languages \cup {RAISE}

\* every tag of the three label vocabularies, and two tags of none of them
Tags == {"LABEL_0", "LABEL_1", "LABEL_2", "NEGATIVE", "NEUTRAL", "POSITIVE",
         "1 star", "2 stars", "3 stars", "4 stars", "5 stars",
         "negative", "mixed"}
ClassifierOutcomes == Tags \cup {RAISE}

\* the outcomes of the two-class English model, used where a run classifies
\* several texts
BinaryOutcomes == {"NEGATIVE", "POSITIVE", RAISE}

-----------------------------------------------------------------------------
(* HELPERS (lines 106-115) *)

\* langdetect.detect(text)
detect(text) == detect_result[text]

detect_language_und(text) ==
    IF detect(text) = RAISE THEN "und" ELSE detect(text)

\* try: return detect(text)  except: return "en"
detect_language(text) ==
    IF detect(text) = RAISE THEN "en" ELSE detect(text)

\* model = sentiment_en if detect_language(text) == "en" else sentiment_multi
select_model(text) ==
    IF detect_language(text) = "en" THEN "sentiment_en" ELSE "sentiment_multi"

clip_none(text) == text

\* text[:512]
clip(text) == Take(text, MAX_CHARS)

\* "Negative" if label in ["LABEL_0", "NEGATIVE"] else "Positive"
label_to_sentiment(label) ==
    IF label \in {"LABEL_0", "NEGATIVE"} THEN "Negative" ELSE "Positive"

\* predict_sentiment(text): the classifier call it makes, and its return value
\* or the exception of the classifier, which it does not catch
predict_sentiment(text) ==
    LET model == select_model(text)
        passed == clip(text)
        label == model_result[passed]
    IN  [call |-> <<model, passed>>,
         raised |-> (label = RAISE),
         value |-> IF label = RAISE THEN RAISE ELSE label_to_sentiment(label)]

-----------------------------------------------------------------------------
(* State outside a script run *)

NoOutput == [op |-> "none"]
NoInput == [op |-> "none"]
NoApi == [search |-> [ok |-> TRUE, items |-> << >>],
          channel |-> [ok |-> TRUE, items |-> << >>],
          comments |-> << >>]

\* nothing rendered yet
Blank ==
    /\ output = NoOutput
    /\ ui = << >>
    /\ crashed = FALSE
    /\ calls = << >>
    /\ comments = << >>
    /\ sentiments = << >>
    /\ counts = << >>
    /\ aspect_df = << >>

Modes == {"Product / Topic Analysis (YouTube)", "YouTube Channel Insights",
          "CSV Upload Analysis"}

-----------------------------------------------------------------------------
(* predict_sentiment as a function of one text and the environment's answers *)

PredictCorpus == {T_empty, T_nice, T_expensive, T_511, T_512, T_513, T_600}

\* the texts a classifier may be handed for the text t
Passable(t) == {t, Take(t, MAX_CHARS)}

InitPredict ==
    /\ \E t \in PredictCorpus :
        /\ input = [op |-> "predict_sentiment", text |-> t]
        /\ detect_result \in [{t} -> DetectOutcomes]
        /\ \E o \in ClassifierOutcomes : model_result = [x \in Passable(t) |-> o]
    /\ api = NoApi
    /\ mode = "Product / Topic Analysis (YouTube)"
    /\ Blank

PredictOne ==
    /\ output = NoOutput
    /\ LET r == predict_sentiment(input.text)
       IN  /\ output' = [op |-> "predict_sentiment", raised |-> r.raised,
                         value |-> r.value]
           /\ calls' = <<r.call>>
           /\ crashed' = r.raised
    /\ UNCHANGED <<detect_result, model_result, api, mode, input, ui, comments,
                   sentiments, counts, aspect_df>>

NextPredict == PredictOne

SpecPredict == InitPredict /\ [][NextPredict]_vars

-----------------------------------------------------------------------------
(* ASPECTS and aspect_based_sentiment (lines 117-131) *)

K_price == <<"p","r","i","c","e">>
K_cost == <<"c","o","s","t">>
K_expensive == <<"e","x","p","e","n","s","i","v","e">>
K_cheap == <<"c","h","e","a","p">>
K_quality == <<"q","u","a","l","i","t","y">>
K_pure == <<"p","u","r","e">>
K_organic == <<"o","r","g","a","n","i","c">>
K_performance == <<"p","e","r","f","o","r","m","a","n","c","e">>
K_good == <<"g","o","o","d">>
K_bad == <<"b","a","d">>
K_packaging == <<"p","a","c","k","a","g","i","n","g">>
K_bottle == <<"b","o","t","t","l","e">>
K_box == <<"b","o","x">>
K_delivery == <<"d","e","l","i","v","e","r","y">>
K_shipping == <<"s","h","i","p","p","i","n","g">>

ASPECTS_extended ==
    << [aspect |-> "Price", keys |-> <<K_price, K_cost, K_expensive, K_cheap>>],
       [aspect |-> "Quality", keys |-> <<K_quality, K_pure, K_organic,
                                         K_performance, K_good, K_bad>>],
       [aspect |-> "Packaging", keys |-> <<K_packaging, K_bottle, K_box>>],
       [aspect |-> "Delivery", keys |-> <<K_delivery, K_shipping>>] >>

\* the dict ASPECTS, in insertion order
ASPECTS ==
    << [aspect |-> "Price", keys |-> <<K_price, K_cost, K_expensive, K_cheap>>],
       [aspect |-> "Quality", keys |-> <<K_quality, K_pure, K_organic>>],
       [aspect |-> "Packaging", keys |-> <<K_packaging, K_bottle, K_box>>],
       [aspect |-> "Delivery", keys |-> <<K_delivery, K_shipping>>] >>

\* for a, keys in ASPECTS.items(): if any(k in tl for k in keys): the aspects
\* of one text, in order
aspects_of(t) ==
    LET tl == StrLower(t)
        hit(e) == \E j \in 1..Len(e.keys) : Contains(e.keys[j], tl)
    IN  SelectSeq(ASPECTS, hit)

\* the (text, aspect) pairs of the two nested loops, in order
RECURSIVE aspect_matches(_)
aspect_matches(texts) ==
    IF texts = << >> THEN << >>
    ELSE LET t == Head(texts)
             a == aspects_of(t)
         IN  [i \in 1..Len(a) |-> [text |-> t, aspect |-> a[i].aspect]]
             \o aspect_matches(Tail(texts))

\* a sequence of predict_sentiment calls, one after the other: the first
\* exception ends it, and then no list is returned
predict_each(texts) ==
    LET R == {i \in 1..Len(texts) : predict_sentiment(texts[i]).raised}
        first == IF R = {} THEN 0 ELSE CHOOSE i \in R : \A j \in R : i <= j
        n == IF first = 0 THEN Len(texts) ELSE first
    IN  [raised |-> (first # 0),
         calls |-> [i \in 1..n |-> predict_sentiment(texts[i]).call],
         values |-> IF first # 0 THEN << >>
                    ELSE [i \in 1..Len(texts) |-> predict_sentiment(texts[i]).value]]

\* aspect_based_sentiment(texts): the rows of the DataFrame it returns
aspect_based_sentiment(texts) ==
    LET m == aspect_matches(texts)
        p == predict_each([i \in 1..Len(m) |-> m[i].text])
    IN  [raised |-> p.raised,
         calls |-> p.calls,
         rows |-> [i \in 1..Len(p.values) |->
                     [Aspect |-> m[i].aspect, Sentiment |-> p.values[i]]]]

-----------------------------------------------------------------------------
(* The aggregators (lines 199, 228 and 278-283) *)

Count(s, v) == Cardinality({i \in 1..Len(s) : s[i] = v})

value_counts_unique(s) == [v \in Range(s) |-> 1]

\* pd.Series(s).value_counts(): a count for each value present
value_counts(s) == [v \in Range(s) |-> Count(s, v)]

\* Series.reindex(labels, fill_value=fill): the labels asked for, and only them
reindex(vc, labels, fill) ==
    [c \in Range(labels) |-> IF c \in DOMAIN vc THEN vc[c] ELSE fill]

\* the index both pie functions reindex to; the drawing of the charts from s
\* is left out
CATEGORIES == <<"Negative", "Positive">>

\* s = pd.Series(sentiments).value_counts().reindex(["Negative", "Positive"], fill_value=0)
sentiment_counts(s) == reindex(value_counts(s), CATEGORIES, 0)

\* a cell of a DataFrame of counts: a number, or NaN
Cell(n) == <<n>>
NaN == << >>

\* absa.groupby(["Aspect", "Sentiment"]).size(): a count for each pair present
group_sizes(rows) ==
    [k \in {<<rows[i].Aspect, rows[i].Sentiment>> : i \in 1..Len(rows)} |->
        Cardinality({i \in 1..Len(rows) :
                        <<rows[i].Aspect, rows[i].Sentiment>> = k})]

\* .unstack(): a row for each aspect present, a column for each sentiment
\* present, NaN where the pair is absent
unstack(sizes) ==
    [a \in {k[1] : k \in DOMAIN sizes} |->
        [c \in {k[2] : k \in DOMAIN sizes} |->
            IF <<a, c>> \in DOMAIN sizes THEN Cell(sizes[<<a, c>>]) ELSE NaN]]

\* DataFrame.reindex(columns=labels, fill_value=fill): an existing column is
\* kept as it is, a new column is filled
reindex_columns(df, labels, fill) ==
    [a \in DOMAIN df |->
        [c \in Range(labels) |->
            IF c \in DOMAIN df[a] THEN df[a][c] ELSE Cell(fill)]]

ASPECT_COLUMNS == <<"Positive", "Negative">>

\* aspect_df of the topic analysis
aspect_table(rows) == reindex_columns(unstack(group_sizes(rows)), ASPECT_COLUMNS, 0)

-----------------------------------------------------------------------------
(* The aggregator as a function of a list of sentiments *)

Sentiments == {"Positive", "Neutral", "Negative"}

InitAggregate ==
    /\ \E s \in SeqUpTo(Sentiments, MaxItems) :
        input = [op |-> "aggregate", sentiments |-> s]
    /\ detect_result = << >>
    /\ model_result = << >>
    /\ api = NoApi
    /\ mode = "Product / Topic Analysis (YouTube)"
    /\ Blank

\* show_sentiment_pie_and_bar(sentiments)
ShowPieAndBar ==
    /\ output = NoOutput
    /\ sentiments' = input.sentiments
    /\ counts' = sentiment_counts(input.sentiments)
    /\ ui' = <<"pie", "barh">>
    /\ output' = [op |-> "show_sentiment_pie_and_bar"]
    /\ UNCHANGED <<detect_result, model_result, api, mode, input, crashed, calls,
                   comments, aspect_df>>

\* show_sentiment_pie(sentiments)
ShowPie ==
    /\ output = NoOutput
    /\ sentiments' = input.sentiments
    /\ counts' = sentiment_counts(input.sentiments)
    /\ ui' = <<"pie">>
    /\ output' = [op |-> "show_sentiment_pie"]
    /\ UNCHANGED <<detect_result, model_result, api, mode, input, crashed, calls,
                   comments, aspect_df>>

NextAggregate == ShowPieAndBar \/ ShowPie

SpecAggregate == InitAggregate /\ [][NextAggregate]_vars

-----------------------------------------------------------------------------
(* aspect_based_sentiment as a function of a list of texts *)

AspectCorpus == {T_nice, T_good, T_expensive, T_cheapbox, T_purebox}

InitAspect ==
    /\ \E ts \in SeqUpTo(AspectCorpus, MaxTexts) :
        /\ input = [op |-> "aspect_based_sentiment", texts |-> ts]
        /\ detect_result \in [Range(ts) -> DetectOutcomes]
        /\ model_result \in [Range(ts) -> BinaryOutcomes]
    /\ api = NoApi
    /\ mode = "Product / Topic Analysis (YouTube)"
    /\ Blank

TagAspects ==
    /\ output = NoOutput
    /\ LET r == aspect_based_sentiment(input.texts)
       IN  /\ output' = [op |-> "aspect_based_sentiment", raised |-> r.raised,
                         rows |-> r.rows]
           /\ calls' = r.calls
           /\ crashed' = r.raised
    /\ UNCHANGED <<detect_result, model_result, api, mode, input, ui, comments,
                   sentiments, counts, aspect_df>>

NextAspect == TagAspects

SpecAspect == InitAspect /\ [][NextAspect]_vars

-----------------------------------------------------------------------------
(* YOUTUBE DATA (lines 136-161) *)

\* fetch_comments(video_id, limit=150) keeps res["items"][:limit]
COMMENT_LIMIT == 150

\* an answer of the API: the items of the response, or an exception
Answer(items) == [ok |-> TRUE, items |-> items]
Failure == [ok |-> FALSE, items |-> << >>]

\* search_videos(query): youtube.search().list(...).execute()
search_videos == api.search

\* fetch_comments(video_id): the exception of execute() is not caught
fetch_comments(v) ==
    IF api.comments[v].ok THEN Answer(Take(api.comments[v].items, COMMENT_LIMIT))
    ELSE Failure

\* for v in vids: comments.extend(fetch_comments(v)): the comments collected,
\* up to the first fetch that raises
RECURSIVE extend_comments(_, _)
extend_comments(acc, vids) ==
    IF vids = << >> THEN [raised |-> FALSE, comments |-> acc]
    ELSE LET r == fetch_comments(Head(vids))
         IN  IF r.ok THEN extend_comments(acc \o r.items, Tail(vids))
             ELSE [raised |-> TRUE, comments |-> acc]

-----------------------------------------------------------------------------
(* One script run: what it renders and computes *)

Run(u, cr, cl, cm, se, co, ad) ==
    [ui |-> u, crashed |-> cr, calls |-> cl, comments |-> cm, sentiments |-> se,
     counts |-> co, aspect_df |-> ad]

\* the script's run sets the variables of the page
Render(r) ==
    /\ ui' = r.ui
    /\ crashed' = r.crashed
    /\ calls' = r.calls
    /\ comments' = r.comments
    /\ sentiments' = r.sentiments
    /\ counts' = r.counts
    /\ aspect_df' = r.aspect_df

\* lines 271-288: if comments: ...
topic_report(u, cm) ==
    LET p == predict_each(cm)
        a == aspect_based_sentiment(cm)
        charts == u \o <<"pie", "barh">>
        co == sentiment_counts(p.values)
    IN  IF cm = << >> THEN Run(u, FALSE, << >>, cm, << >>, << >>, << >>)
        ELSE IF p.raised THEN Run(u, TRUE, p.calls, cm, << >>, << >>, << >>)
        ELSE IF a.raised
             THEN Run(charts, TRUE, p.calls \o a.calls, cm, p.values, co, << >>)
        ELSE IF a.rows = << >>
             THEN Run(charts \o <<"samples">>, FALSE, p.calls \o a.calls, cm,
                      p.values, co, << >>)
        ELSE Run(charts \o <<"aspect_chart", "samples">>, FALSE,
                 p.calls \o a.calls, cm, p.values, co, aspect_table(a.rows))

\* lines 260-288: the run after "Analyze" is pressed
topic_run ==
    LET s == search_videos
        f == extend_comments(<< >>, s.items)
    IN  IF ~s.ok THEN Run(<<"info">>, TRUE, << >>, << >>, << >>, << >>, << >>)
        ELSE IF f.raised
             THEN Run(<<"info">>, TRUE, << >>, f.comments, << >>, << >>, << >>)
        ELSE topic_report(<<"info", "videos_analyzed", "comments_analyzed">>,
                          f.comments)

\* lines 305-319: the page for a channel that was found
channel_report(cm) ==
    LET p == predict_each(cm)
        u == <<"metrics", "monthly_views">>
    IN  IF p.raised THEN Run(u, TRUE, p.calls, cm, << >>, << >>, << >>)
        ELSE Run(u \o <<"pie", "samples">>, FALSE, p.calls, cm, p.values,
                 sentiment_counts(p.values), << >>)

\* lines 296-319: the run after "Analyze Channel" is pressed; fetch_channel_data
\* (lines 151-185) searches the channel's videos and fetches their comments.
\* The statistics of videos().list (views, likes, months) are rendered as
\* "metrics" and "monthly_views" and their values are left out.
channel_run ==
    LET c == api.channel
        s == api.search
        f == extend_comments(<< >>, s.items)
    IN  IF ~c.ok THEN Run(<< >>, TRUE, << >>, << >>, << >>, << >>, << >>)
        ELSE IF c.items = << >>
             THEN Run(<< >>, FALSE, << >>, << >>, << >>, << >>, << >>)
        ELSE IF ~s.ok THEN Run(<< >>, TRUE, << >>, << >>, << >>, << >>, << >>)
        ELSE IF f.raised THEN Run(<< >>, TRUE, << >>, f.comments, << >>, << >>, << >>)
        ELSE channel_report(f.comments)

\* "text" in df.columns
C_text == <<"t","e","x","t">>
C_TEXT == <<"T","E","X","T">>
C_Tweet == <<"T","w","e","e","t">>
C_review == <<"r","e","v","i","e","w">>
C_id == <<"i","d">>

has_text_column_any_case(columns) ==
    \E i \in 1..Len(columns) : StrLower(columns[i]) = C_text

has_text_column(columns) == C_text \in Range(columns)

CSV_ERROR == "CSV must contain a 'text' column"

\* lines 326-331: the run with a file uploaded; read_csv raises on a file
\* without columns
csv_run(file) ==
    LET p == predict_each(file.rows)
    IN  IF file.columns = << >>
        THEN Run(<< >>, TRUE, << >>, << >>, << >>, << >>, << >>)
        ELSE IF has_text_column(file.columns)
        THEN IF p.raised
             THEN Run(<< >>, TRUE, p.calls, << >>, << >>, << >>, << >>)
             ELSE Run(<<"pie">>, FALSE, p.calls, << >>, p.values,
                      sentiment_counts(p.values), << >>)
        ELSE Run(<<CSV_ERROR>>, FALSE, << >>, << >>, << >>, << >>, << >>)

-----------------------------------------------------------------------------
(* The page: the two YouTube modes *)

SessionCorpus == {T_expensive, T_purebox}
VideoIds == {"v1", "v2"}

\* lists of distinct videos
VideoLists ==
    {l \in SeqUpTo(VideoIds, MaxVideos) :
        \A i, j \in 1..Len(l) : l[i] = l[j] => i = j}

SearchAnswers == {Failure} \cup {Answer(l) : l \in VideoLists}
CommentAnswers ==
    {Failure} \cup {Answer(l) : l \in SeqUpTo(SessionCorpus, MaxComments)}
ChannelAnswers == {Failure, Answer(<< >>), Answer(<<"UC1">>)}

Init ==
    /\ detect_result \in [SessionCorpus -> DetectOutcomes]
    /\ model_result \in [SessionCorpus -> BinaryOutcomes]
    /\ api \in [search : SearchAnswers, channel : ChannelAnswers,
                comments : [VideoIds -> CommentAnswers]]
    /\ mode = "Product / Topic Analysis (YouTube)"
    /\ input = NoInput
    /\ Blank

\* the selectbox changes: the script runs again and renders the mode's inputs
SelectMode(m) ==
    /\ m # mode
    /\ mode' = m
    /\ input' = NoInput
    /\ output' = NoOutput
    /\ Render(Run(<< >>, FALSE, << >>, << >>, << >>, << >>, << >>))
    /\ UNCHANGED <<detect_result, model_result, api>>

\* st.button("Analyze") in the topic mode
AnalyzeTopic ==
    /\ mode = "Product / Topic Analysis (YouTube)"
    /\ input' = [op |-> "Analyze"]
    /\ Render(topic_run)
    /\ UNCHANGED <<detect_result, model_result, api, mode, output>>

\* st.button("Analyze Channel") in the channel mode
AnalyzeChannel ==
    /\ mode = "YouTube Channel Insights"
    /\ input' = [op |-> "Analyze Channel"]
    /\ Render(channel_run)
    /\ UNCHANGED <<detect_result, model_result, api, mode, output>>

Next ==
    \/ \E m \in Modes : SelectMode(m)
    \/ AnalyzeTopic
    \/ AnalyzeChannel

Spec == Init /\ [][Next]_vars

-----------------------------------------------------------------------------
(* The page: the CSV mode *)

ColumnLists == {<< >>, <<C_text>>, <<C_TEXT>>, <<C_Tweet>>, <<C_id, C_text>>,
                <<C_id, C_review>>, <<C_id>>}

\* an uploaded file: its header, and the values of its text-bearing column
Files == [columns : ColumnLists, rows : SeqUpTo(SessionCorpus, MaxRows)]

InitCSV ==
    /\ detect_result \in [SessionCorpus -> DetectOutcomes]
    /\ model_result \in [SessionCorpus -> BinaryOutcomes]
    /\ api = NoApi
    /\ mode = "Product / Topic Analysis (YouTube)"
    /\ input = NoInput
    /\ Blank

\* st.file_uploader receives a file in the CSV mode
UploadCSV(file) ==
    /\ mode = "CSV Upload Analysis"
    /\ input' = [op |-> "upload", file |-> file]
    /\ Render(csv_run(file))
    /\ UNCHANGED <<detect_result, model_result, api, mode, output>>

NextCSV ==
    \/ \E m \in Modes : SelectMode(m)
    \/ \E file \in Files : UploadCSV(file)

SpecCSV == InitCSV /\ [][NextCSV]_vars

-----------------------------------------------------------------------------
(* Properties *)

Predicted == output.op = "predict_sentiment"
Aggregated == output.op \in {"show_sentiment_pie", "show_sentiment_pie_and_bar"}
Tagged == output.op = "aspect_based_sentiment"
TopicRan == input.op = "Analyze"
ChannelRan == input.op = "Analyze Channel"
Uploaded == input.op = "upload"

\* the label the classifier gave for the text of SpecPredict
GivenLabel == model_result[Take(input.text, MAX_CHARS)]

\* the mapping table of the label normalizer
TableSentiment(tag) ==
    IF tag \in {"LABEL_0", "NEGATIVE", "1 star", "2 stars"} THEN "Negative"
    ELSE IF tag \in {"LABEL_2", "POSITIVE", "4 stars", "5 stars"} THEN "Positive"
    ELSE "Neutral"

\* C1: for every raw classifier tag, predict_sentiment returns the sentiment
\* of the mapping table, and Neutral for a tag outside the table.
C1_TableMapping ==
    (Predicted /\ GivenLabel # RAISE) =>
        (~output.raised /\ output.value = TableSentiment(GivenLabel))

\* the comments of the videos of a list, those of a failed fetch left out
RECURSIVE CommentsOfVideos(_)
CommentsOfVideos(vids) ==
    IF vids = << >> THEN << >>
    ELSE (IF api.comments[Head(vids)].ok THEN api.comments[Head(vids)].items
          ELSE << >>) \o CommentsOfVideos(Tail(vids))

\* a run that searched the videos: of a topic, or of a channel that was found
VideosSearched ==
    /\ api.search.ok
    /\ \/ TopicRan
       \/ ChannelRan /\ api.channel.ok /\ api.channel.items # << >>

AllFetched == \A i \in 1..Len(api.search.items) : api.comments[api.search.items[i]].ok

ClassifierRaises(t) == model_result[Take(t, MAX_CHARS)] = RAISE

\* C2: when the classifier raises for a text, predict_sentiment returns its
\* default (Neutral or Negative), and the run goes on with the other texts:
\* every collected comment gets a sentiment.
C2_ClassifierFailureDefaults ==
    (VideosSearched /\ AllFetched) =>
        /\ ~crashed
        /\ Len(sentiments) = Len(comments)
        /\ \A i \in 1..Len(sentiments) :
              ClassifierRaises(comments[i]) => sentiments[i] \in {"Neutral", "Negative"}

\* C3: a video whose comment fetch raises contributes no comment, and the
\* comments of the other videos, before and after it, are collected and
\* analyzed.
C3_FetchFailureSwallowed ==
    VideosSearched =>
        LET expected == CommentsOfVideos(api.search.items)
        IN  /\ comments = expected
            /\ (\A i \in 1..Len(expected) : ~ClassifierRaises(expected[i])) =>
                  (~crashed /\ Len(sentiments) = Len(expected))

AcceptedNames == {C_text, C_Tweet, C_review}

Lowered(S) == {StrLower(c) : c \in S}

\* the rows of the uploaded file go to a classifier one after the other, as
\* long as none raises
RowsClassified ==
    LET rows == input.file.rows
    IN  /\ Len(calls) <= Len(rows)
        /\ \A i \in 1..Len(calls) : calls[i][2] = rows[i]
        /\ \A i \in 1..Len(calls) : ClassifierRaises(rows[i]) => i = Len(calls)
        /\ Len(calls) < Len(rows) => (crashed /\ ClassifierRaises(rows[Len(calls)]))
        /\ ~crashed => (Len(sentiments) = Len(rows) /\ ui = <<"pie">>)

Rejected == ui = <<CSV_ERROR>> /\ calls = << >> /\ counts = << >> /\ ~crashed

\* C4 as claimed: a file with a column whose name matches an accepted name
\* whatever its case (Tweet, TEXT) is resolved to that column and its rows
\* are classified, not rejected.
C4_CaseInsensitiveColumn ==
    (Uploaded /\ \E c \in Range(input.file.columns) :
                    StrLower(c) \in Lowered(AcceptedNames)) =>
        (~Rejected /\ RowsClassified)

\* C4 as amended: the text column is the column named exactly "text": with it
\* the rows are classified, and any other header (Tweet, TEXT, review) is
\* rejected with the error message and no classifier call.
C4_ExactTextColumn ==
    (Uploaded /\ input.file.columns # << >>) =>
        IF C_text \in Range(input.file.columns)
        THEN ~Rejected /\ RowsClassified
        ELSE Rejected

C4_Witness ==
    /\ Uploaded
    /\ input.file.columns = <<C_Tweet>>
    /\ Len(input.file.rows) = MaxRows
    /\ Rejected

\* every text a run can show: the error of the CSV mode, and the st.info and
\* st.write lines of the topic mode
Messages == {CSV_ERROR, "info", "videos_analyzed", "comments_analyzed"}

\* C5: a channel name that resolves to no channel, or a topic search that
\* returns no video, shows a message to the user and calls no classifier.
\* Any text shown counts as the message here.
C5_ValidationBlocks ==
    (\/ ChannelRan /\ api.channel = Answer(<< >>)
     \/ TopicRan /\ api.search = Answer(<< >>)) =>
        /\ \E i \in 1..Len(ui) : ui[i] \in Messages
        /\ calls = << >>

RECURSIVE SumOver(_, _)
SumOver(f, S) ==
    IF S = {} THEN 0
    ELSE LET c == CHOOSE x \in S : TRUE IN f[c] + SumOver(f, S \ {c})

Total == SumOver(counts, DOMAIN counts)

C7_ZeroFilled ==
    /\ (VideosSearched /\ ~crashed /\ "pie" \in Range(ui)) =>
          \A c \in {"Negative", "Positive"} :
              c \in DOMAIN counts /\ counts[c] = Count(sentiments, c)
    /\ \A a \in DOMAIN aspect_df : \A c \in {"Positive", "Negative"} :
          c \in DOMAIN aspect_df[a] /\ aspect_df[a][c] # NaN

\* the aspects of a text under a keyword table, in the order of the aspects
AspectOrder == <<"Price", "Quality", "Packaging", "Delivery">>

ClaimedKeywords ==
    [a \in Range(AspectOrder) |->
        CASE a = "Price" -> {K_price, K_cost, K_expensive, K_cheap}
          [] a = "Quality" -> {K_quality, K_pure, K_organic, K_performance,
                               K_good, K_bad}
          [] a = "Packaging" -> {K_packaging, K_bottle, K_box}
          [] a = "Delivery" -> {K_delivery, K_shipping}]

CodeKeywords ==
    [ClaimedKeywords EXCEPT !["Quality"] = {K_quality, K_pure, K_organic}]

Mentions(t, keys) == \E k \in keys : Contains(k, StrLower(t))

\* one (aspect, text) for each text, in order, and each aspect it mentions
RECURSIVE ExpectedPairs(_, _)
ExpectedPairs(texts, table) ==
    IF texts = << >> THEN << >>
    ELSE LET t == Head(texts)
             hit(a) == Mentions(t, table[a])
             as == SelectSeq(AspectOrder, hit)
         IN  [i \in 1..Len(as) |-> <<as[i], t>>] \o ExpectedPairs(Tail(texts), table)

\* the rows are the expected pairs, each with the sentiment of its text
RowsAre(pairs) ==
    /\ Len(output.rows) = Len(pairs)
    /\ \A i \in 1..Len(pairs) :
          /\ output.rows[i].Aspect = pairs[i][1]
          /\ output.rows[i].Sentiment \in {"Negative", "Positive"}
          /\ calls[i][2] = pairs[i][2]

\* C8 as claimed: one pair for each aspect with a keyword in the lowercased
\* text, Quality having the keywords quality, pure, organic, performance,
\* good, bad.
C8_ClaimedKeywords ==
    (Tagged /\ ~output.raised) => RowsAre(ExpectedPairs(input.texts, ClaimedKeywords))

\* C8 as amended: the same with Quality having the keywords quality, pure,
\* organic only; and when a classifier call raises no pair is returned.
C8_CodeKeywords ==
    Tagged =>
        /\ ~output.raised => RowsAre(ExpectedPairs(input.texts, CodeKeywords))
        /\ output.raised => output.rows = << >>
        /\ Len(output.rows) <= Len(input.texts) * Len(AspectOrder)

C8_Witness ==
    /\ Tagged
    /\ input.texts = <<T_expensive, T_good>>
    /\ ~output.raised
    /\ Len(output.rows) = 1
    /\ output.rows[1].Aspect = "Price"

\* C9: the text handed to the classifier is the first 512 characters of the
\* text, and the whole text when it has at most 512.
C9_First512 ==
    Predicted =>
        /\ Len(calls) = 1
        /\ Len(calls[1][2]) = Min(Len(input.text), 512)
        /\ \A i \in 1..Len(calls[1][2]) : calls[1][2][i] = input.text[i]

C9_Witness ==
    /\ Predicted
    /\ Len(input.text) > 512
    /\ Len(calls[1][2]) = 512

\* C10: when the detector raises, detect_language gives "en" and the English
\* model is invoked; the multilingual model is invoked only for a detected
\* language other than "en".
C10_DetectionFallback ==
    Predicted =>
        /\ Len(calls) = 1
        /\ detect_result[input.text] = RAISE =>
              (detect_language(input.text) = "en" /\ calls[1][1] = "sentiment_en")
        /\ calls[1][1] = "sentiment_multi" =>
              detect_result[input.text] \in Languages \ {"en"}
        /\ calls[1][1] \in {"sentiment_en", "sentiment_multi"}

C10_Witness ==
    /\ Predicted
    /\ detect_result[input.text] = RAISE
    /\ calls[1][1] = "sentiment_en"

====
